---- MODULE Spec2Model ----
(***************************************************************************)
(* A model of terseid: the base36 hash codec (src/src/hash.rs), the        *)
(* adaptive-length generator (src/src/generate.rs), the configuration      *)
(* builder (src/src/config.rs) and the ID parser (src/src/parse.rs).       *)
(*                                                                         *)
(* Strings are sequences of one-character strings.  A u64 is a sequence of *)
(* four 16-bit limbs, most significant first, and a u32 a sequence of two, *)
(* so that no intermediate value leaves TLC's integer range.               *)
(***************************************************************************)
EXTENDS Integers, Sequences, FiniteSets, TLC

(***************************************************************************)
(* Characters                                                              *)
(***************************************************************************)

\* hash.rs:3  const BASE36_CHARS: &[u8] = b"0123456789abcdefghijklmnopqrstuvwxyz"
BASE36_CHARS ==
  << "0","1","2","3","4","5","6","7","8","9",
     "a","b","c","d","e","f","g","h","i","j","k","l","m",
     "n","o","p","q","r","s","t","u","v","w","x","y","z" >>

\* char::is_ascii_digit
Digits == {"0","1","2","3","4","5","6","7","8","9"}

LowerLetters ==
  {"a","b","c","d","e","f","g","h","i","j","k","l","m",
   "n","o","p","q","r","s","t","u","v","w","x","y","z"}

\* The upper-case letters the model's inputs use.
UpperLetters == {"A","B","X","Z"}

\* The value of a decimal digit character.
DigitValue(c) == CHOOSE i \in 0..9 : BASE36_CHARS[i + 1] = c

\* str::to_lowercase on one character (ASCII).
LowerChar(c) ==
  CASE c = "A" -> "a"
    [] c = "B" -> "b"
    [] c = "X" -> "x"
    [] c = "Z" -> "z"
    [] OTHER -> c

\* str::to_lowercase
to_lowercase(s) == [i \in 1..Len(s) |-> LowerChar(s[i])]

Reverse(s) == [i \in 1..Len(s) |-> s[Len(s) + 1 - i]]

(***************************************************************************)
(* Fixed-width unsigned integers as limbs                                  *)
(***************************************************************************)

LimbBase == 2^16

IsZero(v) == \A i \in 1..Len(v) : v[i] = 0

\* v divided by the small number k: <<quotient limbs, remainder>>.
RECURSIVE DivLoop(_, _, _, _)
DivLoop(v, k, i, rem) ==
  IF i > Len(v) THEN << <<>>, rem >>
  ELSE LET cur  == rem * LimbBase + v[i]
           rest == DivLoop(v, k, i + 1, cur % k)
       IN  << <<cur \div k>> \o rest[1], rest[2] >>

DivSmall(v, k) == DivLoop(v, k, 1, 0)

\* The limbs lo..hi of v times the small number k plus carry-in c:
\* <<product limbs, carry out of limb lo>>.  The less significant half is
\* multiplied first and its carry goes into the more significant half.
RECURSIVE MulRange(_, _, _, _, _)
MulRange(v, k, lo, hi, c) ==
  IF lo = hi
  THEN LET cur == v[lo] * k + c
       IN  << <<cur % LimbBase>>, cur \div LimbBase >>
  ELSE LET mid  == (lo + hi) \div 2
           low  == MulRange(v, k, mid + 1, hi, c)
           high == MulRange(v, k, lo, mid, low[2])
       IN  << high[1] \o low[1], high[2] >>

\* v times the small number k plus carry-in c, on Len(v) limbs:
\* <<product limbs (wrapped to the width), carry out of the width>>.
MulSmall(v, k, c) == MulRange(v, k, 1, Len(v), c)

\* a < b for two limb sequences of the same length.
LimbLess(a, b) ==
  \E i \in 1..Len(a) : a[i] < b[i] /\ \A j \in 1..(i - 1) : a[j] = b[j]

\* A natural number below 2^31 on w limbs.
NatToLimbs(n, w) ==
  [i \in 1..w |-> IF w - i >= 2 THEN 0
                  ELSE IF w - i = 1 THEN n \div LimbBase
                  ELSE n % LimbBase]

\* i32/u32 Display for a number below 2^31.
RECURSIVE NatToString(_)
NatToString(n) ==
  IF n < 10 THEN <<BASE36_CHARS[n + 1]>>
  ELSE NatToString(n \div 10) \o <<BASE36_CHARS[(n % 10) + 1]>>

(***************************************************************************)
(* Codec (hash.rs)                                                         *)
(***************************************************************************)

\* The byte seeds of the model, by number, and the first eight bytes of
\* their SHA-256 digest as a big-endian u64.  Seeds 1 to 6 are the digests
\* of the byte strings named; 7 to 9 are the ends of the u64 range.
\*   1 "forced-collision"  31pi8r59hmrwj    2 "seed-2106"  31ptea871x4u5
\*   3 "seed-14"           ufth2869kl64     4 "seed-33"    tpxzaytijepv
\*   5 "seed-93"           ii64xcwpk1v      6 "seed-1"     81hbatefw7aw
\*   7 digest 0            8 digest 35      9 digest 2^64-1
DigestTable ==
  << <<51301, 17386, 40639, 48067>>,
     <<51305, 18983, 62084, 46013>>,
     <<14233, 59027, 22047, 10540>>,
     <<13897, 52782, 14789, 22339>>,
     <<240, 23806, 52942, 4547>>,
     <<3760, 9843, 7582, 41976>>,
     <<0, 0, 0, 0>>,
     <<0, 0, 0, 35>>,
     <<65535, 65535, 65535, 65535>> >>

Seeds == 1..Len(DigestTable)

\* hash.rs:6  compute_hash: SHA-256, first 8 bytes, big-endian u64.
compute_hash(seed) == DigestTable[seed]

\* hash.rs:16-21  the digit loop: least significant digit first.
RECURSIVE EncodeLoop(_)
EncodeLoop(v) ==
  IF IsZero(v) THEN <<>>
  ELSE LET qr == DivSmall(v, 36)
       IN  <<BASE36_CHARS[qr[2] + 1]>> \o EncodeLoop(qr[1])

\* hash.rs:12  base36_encode
base36_encode(value) ==
  IF IsZero(value) THEN <<"0">> ELSE Reverse(EncodeLoop(value))

\* format!("{:0>width$}", s): pad on the left with '0' up to width.
PadLeftZero(s, width) ==
  IF Len(s) >= width THEN s
  ELSE [i \in 1..(width - Len(s)) |-> "0"] \o s

\* hash.rs:28-29  base36_encode(compute_hash(input)) of the seeds 1..n, as a
\* sequence.
EncodeSeeds(n) ==
  <<>> \o [seed \in 1..n |-> base36_encode(compute_hash(seed))]

\* The same, computed once for each seed of the model.
EncodedDigest == EncodeSeeds(Len(DigestTable))

\* hash without the padding branch.
hash_unpadded(input, length) ==
  LET encoded == EncodedDigest[input]
  IN  IF Len(encoded) >= length THEN SubSeq(encoded, 1, length) ELSE encoded

\* hash.rs:27-35  hash
hash(input, length) ==
  LET encoded == EncodedDigest[input]
  IN  IF Len(encoded) >= length
      THEN SubSeq(encoded, 1, length)
      ELSE PadLeftZero(encoded, length)

(***************************************************************************)
(* Configuration (config.rs) and optimal_length (generate.rs)              *)
(***************************************************************************)

\* config.rs:12-14  the defaults of IdConfig::new
DefaultMinHashLength == 3
DefaultMaxHashLength == 8

\* The f64 probabilities of the model.  Each carries K = -ln(1 - p) in units
\* of 1/KDen, rounded to the nearest unit: 1 - e^(-x) < p exactly when
\* x < -ln(1 - p), which is how the model decides the comparison of
\* generate.rs:34 without floating point.
KDen == 10^4

ProbTable ==
  << [p |-> "0.25", k |-> 2877],
     [p |-> "0.01", k |-> 101],
     [p |-> "0.50", k |-> 6931] >>

Probs == 1..Len(ProbTable)

\* config.rs:9-16  IdConfig::new(prefix)
IdConfig_new(prefix) ==
  [prefix |-> prefix,
   min_hash_length |-> DefaultMinHashLength,
   max_hash_length |-> DefaultMaxHashLength,
   max_collision_prob |-> 1]

\* config.rs:18-31  the builder methods: each sets its field, unchecked.
with_min_hash_length(config, len) == [config EXCEPT !.min_hash_length = len]
with_max_hash_length(config, len) == [config EXCEPT !.max_hash_length = len]
with_max_collision_prob(config, prob) == [config EXCEPT !.max_collision_prob = prob]

\* usize is 64 bits wide: four limbs.
UsizeLimbs == 2 + 2

\* The two overflow behaviours of integer arithmetic in Rust: with overflow
\* checks (debug and test profiles) an overflow panics, without them
\* (release profile) it wraps.
Builds == {"debug", "release"}

Panic == -1

\* One more factor of 36 on a usize power p = <<value mod 2^64, whether a
\* multiplication overflowed>>.
pow36_next(p) ==
  LET m == MulSmall(p[1], 36, 0)
  IN  << m[1], p[2] \/ m[2] # 0 >>

\* The usize powers 36^lo .. 36^hi as a sequence, given p for 36^lo.
RECURSIVE Pow36Range(_, _, _)
Pow36Range(p, lo, hi) ==
  IF lo = hi THEN <<p>>
  ELSE LET mid == (lo + hi) \div 2
           low == Pow36Range(p, lo, mid)
       IN  low \o Pow36Range(pow36_next(low[Len(low)]), mid + 1, hi)

\* The largest hash length the model's configurations can hold.
MaxConfigLength == 33

\* The powers, computed once for each length the model can reach.
Pow36 == Pow36Range(<< NatToLimbs(1, UsizeLimbs), FALSE >>, 0, MaxConfigLength + 1)

\* generate.rs:30  36_usize.pow(length as u32):
\* <<36^length mod 2^64, whether a multiplication overflowed>>.
usize_pow36(length) == Pow36[length + 1]

\* The integer part of n^2 * KDen / (2 K) on usize limbs, for K the constant
\* of the probability: n^2 is below 2^31, so nothing overflows.
scaled_square(n, prob) ==
  DivSmall(MulSmall(NatToLimbs(n * n, UsizeLimbs), KDen, 0)[1],
           2 * ProbTable[prob].k)[1]

\* generate.rs:31-34  1.0 - exp(-(n^2 / (2 d))) < max_collision_prob, for d
\* the usize value the power produced: n^2 / (2 d) < K, that is
\* n^2 * KDen / (2 K) < d, which for the integer d compares the integer part.
\* False for d = 0 (a power that wrapped to 0: n^2 / 0 is infinite or NaN).
p_collision_below(n, d, prob) == LimbLess(scaled_square(n, prob), d)

\* generate.rs:29-37  the scan from `length` upwards.
RECURSIVE ScanLength(_, _, _, _)
ScanLength(config, n, build, length) ==
  IF length > config.max_hash_length THEN config.max_hash_length
  ELSE LET pw == usize_pow36(length)
       IN  IF pw[2] /\ build = "debug" THEN Panic
           ELSE IF p_collision_below(n, pw[1], config.max_collision_prob)
                THEN length
                ELSE ScanLength(config, n, build, length + 1)

\* generate.rs:26-41  optimal_length
optimal_length(config, item_count, build) ==
  ScanLength(config, item_count, build, config.min_hash_length)

(***************************************************************************)
(* The generator (generate.rs)                                             *)
(***************************************************************************)

\* generate.rs:70, 80  `for nonce in 0..10`
NonceTries == 10
\* generate.rs:90  `for nonce in 0..=1000`
LongMaxNonce == 1000
\* generate.rs:92  the length of the long fallback
LongLength == 12
\* generate.rs:102  `for nonce in 0..=10000`
DesperateMaxNonce == 10000
\* generate.rs:101, 110  the hash length of the desperate and last fallbacks
DesperateLength == 12

\* The caller's seed functions: seed_fn.const gives the same bytes for every
\* nonce (generate.rs:265), the others walk the seeds from seed_fn.base.
seed_fn_apply(seed_fn, nonce) ==
  IF seed_fn.const THEN seed_fn.base
  ELSE ((seed_fn.base - 1 + nonce) % Len(DigestTable)) + 1

\* generate.rs:47-50  candidate
candidate(config, seed, hash_length) ==
  config.prefix \o <<"-">> \o hash(seed, hash_length)

\* generate.rs:103  format!("{}-{}{}", prefix, hash_str, nonce)
desperate(config, seed_fn, nonce) ==
  config.prefix \o <<"-">> \o hash(seed_fn_apply(seed_fn, 0), DesperateLength)
    \o NatToString(nonce)

\* generate.rs:110  format!("{}-{}.fallback", prefix, hash(&seed_fn(0), 12))
last_fallback(config, seed_fn) ==
  config.prefix \o <<"-">> \o hash(seed_fn_apply(seed_fn, 0), DesperateLength)
    \o <<".","f","a","l","l","b","a","c","k">>

NoId == <<>>

\* One generate call: where it stands (pc), the loop variables, the number
\* of exists calls made, the last candidate passed to exists and the answer,
\* and the value returned.
GenIdle ==
  [pc |-> "start", optimal |-> 0, length |-> 0, nonce |-> 0, calls |-> 0,
   query |-> NoId, answer |-> TRUE, result |-> NoId]

\* generate.rs:69  let optimal = self.optimal_length(item_count)
gen_start(config, item_count, build, g) ==
  LET optimal == optimal_length(config, item_count, build)
  IN  IF optimal = Panic THEN [g EXCEPT !.pc = "panicked"]
      ELSE [g EXCEPT !.pc = "phase1", !.optimal = optimal, !.nonce = 0]

\* The candidate the call passes to exists next.
gen_query(config, seed_fn, g) ==
  CASE g.pc = "phase1" ->
         candidate(config, seed_fn_apply(seed_fn, g.nonce), g.optimal)
    [] g.pc = "phase2" ->
         candidate(config, seed_fn_apply(seed_fn, g.nonce), g.length)
    [] g.pc = "phase3" ->
         candidate(config, seed_fn_apply(seed_fn, g.nonce), LongLength)
    [] g.pc = "phase4" -> desperate(config, seed_fn, g.nonce)

\* enter_length with the length extension left out.
enter_length_skipped(config, g, length) ==
  [g EXCEPT !.pc = "phase3", !.nonce = 0]

\* enter_length that goes one length beyond max_hash_length.
enter_length_one_more(config, g, length) ==
  IF length <= config.max_hash_length + 1
  THEN [g EXCEPT !.pc = "phase2", !.length = length, !.nonce = 0]
  ELSE [g EXCEPT !.pc = "phase3", !.nonce = 0]

\* generate.rs:79-90  entering the length extension at `length`, or the long
\* fallback when the range (optimal + 1)..=max_hash_length is used up.
enter_length(config, g, length) ==
  IF length <= config.max_hash_length
  THEN [g EXCEPT !.pc = "phase2", !.length = length, !.nonce = 0]
  ELSE [g EXCEPT !.pc = "phase3", !.nonce = 0]

\* Where the call goes when exists answered true.
gen_advance(config, seed_fn, g) ==
  CASE g.pc = "phase1" ->
         IF g.nonce + 1 < NonceTries THEN [g EXCEPT !.nonce = g.nonce + 1]
         ELSE enter_length(config, g, g.optimal + 1)
    [] g.pc = "phase2" ->
         IF g.nonce + 1 < NonceTries THEN [g EXCEPT !.nonce = g.nonce + 1]
         ELSE enter_length(config, g, g.length + 1)
    [] g.pc = "phase3" ->
         IF g.nonce + 1 <= LongMaxNonce THEN [g EXCEPT !.nonce = g.nonce + 1]
         ELSE [g EXCEPT !.pc = "phase4", !.nonce = 0]
    [] g.pc = "phase4" ->
         IF g.nonce + 1 <= DesperateMaxNonce THEN [g EXCEPT !.nonce = g.nonce + 1]
         ELSE [g EXCEPT !.pc = "done", !.result = last_fallback(config, seed_fn)]

\* gen_step with the test of the answer inverted: `if exists(..)`.
gen_step_inverted(config, seed_fn, g, answer) ==
  LET c == gen_query(config, seed_fn, g)
      q == [g EXCEPT !.calls = g.calls + 1, !.query = c, !.answer = answer]
  IN  IF answer THEN [q EXCEPT !.pc = "done", !.result = c]
      ELSE gen_advance(config, seed_fn, q)

\* generate.rs:70-107  one turn of a loop: build the candidate, pass it to
\* exists, return it when the answer is false, go on otherwise.
gen_step(config, seed_fn, g, answer) ==
  LET c == gen_query(config, seed_fn, g)
      q == [g EXCEPT !.calls = g.calls + 1, !.query = c, !.answer = answer]
  IN  IF ~answer THEN [q EXCEPT !.pc = "done", !.result = c]
      ELSE gen_advance(config, seed_fn, q)

GenRunning(g) == g.pc \in {"phase1", "phase2", "phase3", "phase4"}

(***************************************************************************)
(* The parser (parse.rs)                                                   *)
(***************************************************************************)

\* A u32 is two limbs.
U32Limbs == 1 + 1

\* u32 Display: the decimal digits, most significant first.
RECURSIVE DecimalLoop(_)
DecimalLoop(v) ==
  IF IsZero(v) THEN <<>>
  ELSE LET qr == DivSmall(v, 10)
       IN  DecimalLoop(qr[1]) \o <<BASE36_CHARS[qr[2] + 1]>>

u32_to_string(v) == IF IsZero(v) THEN <<"0">> ELSE DecimalLoop(v)

\* parse.rs:41-48  ParsedId::to_id_string
RECURSIVE push_segments(_, _)
push_segments(result, child_path) ==
  IF child_path = <<>> THEN result
  ELSE push_segments(result \o <<".">> \o u32_to_string(Head(child_path)),
                     Tail(child_path))

\* to_id_string that leaves the child path out.
to_id_string_root(parsed) == parsed.prefix \o <<"-">> \o parsed.hash

to_id_string(parsed) ==
  push_segments(parsed.prefix \o <<"-">> \o parsed.hash, parsed.child_path)

\* parse.rs:87-89  is_base36: char::is_ascii_alphanumeric
is_base36(c) == c \in Digits \cup LowerLetters \cup UpperLetters

\* contains_digit that looks at the first character only.
contains_digit_first(s) == s # <<>> /\ s[1] \in Digits

\* parse.rs:92-94  contains_digit
contains_digit(s) == \E i \in 1..Len(s) : s[i] \in Digits

\* str::find(c): the first position of c (1-based), 0 when there is none.
find(s, c) ==
  IF \E i \in 1..Len(s) : s[i] = c
  THEN CHOOSE i \in 1..Len(s) : s[i] = c /\ \A j \in 1..(i - 1) : s[j] # c
  ELSE 0

\* rfind looking for the first occurrence instead of the last.
rfind_first(s, c) == find(s, c)

\* str::rfind(c): the last position of c (1-based), 0 when there is none.
rfind(s, c) ==
  IF \E i \in 1..Len(s) : s[i] = c
  THEN CHOOSE i \in 1..Len(s) : s[i] = c /\ \A j \in (i + 1)..Len(s) : s[j] # c
  ELSE 0

\* str::split(c): the pieces between the occurrences of c, never empty.
RECURSIVE split(_, _)
split(s, c) ==
  LET at == find(s, c)
  IN  IF at = 0 THEN <<s>>
      ELSE <<SubSeq(s, 1, at - 1)>> \o split(SubSeq(s, at + 1, Len(s)), c)

\* The digits of str::parse::<u32>, folded from the left: the value on two
\* limbs, or Overflow when it passes 2^32 - 1.
RECURSIVE u32_digits(_, _, _)
u32_digits(s, i, acc) ==
  IF i > Len(s) THEN [ok |-> TRUE, value |-> acc]
  ELSE IF s[i] \notin Digits THEN [ok |-> FALSE, value |-> acc]
  ELSE LET m == MulSmall(acc, 10, DigitValue(s[i]))
       IN  IF m[2] # 0 THEN [ok |-> FALSE, value |-> acc]
           ELSE u32_digits(s, i + 1, m[1])

\* str::parse::<u32>: an optional '+', then at least one decimal digit.
parse_u32(s) ==
  LET digits == IF Len(s) > 0 /\ s[1] = "+" THEN Tail(s) ELSE s
  IN  IF digits = <<>> THEN [ok |-> FALSE, value |-> NatToLimbs(0, U32Limbs)]
      ELSE u32_digits(digits, 1, NatToLimbs(0, U32Limbs))

\* parse.rs:158-166  the child path, or failure at the first bad segment.
RECURSIVE parse_segments(_, _)
parse_segments(segments, i) ==
  IF i > Len(segments) THEN [ok |-> TRUE, path |-> <<>>]
  ELSE LET num  == parse_u32(segments[i])
           rest == parse_segments(segments, i + 1)
       IN  IF ~num.ok \/ ~rest.ok THEN [ok |-> FALSE, path |-> <<>>]
           ELSE [ok |-> TRUE, path |-> <<num.value>> \o rest.path]

\* Err(TerseIdError::InvalidId { id })
InvalidId(id) ==
  [ok |-> FALSE, id |-> id, prefix |-> <<>>, hash |-> <<>>, child_path |-> <<>>]

\* Ok(ParsedId { prefix, hash, child_path })
OkParsed(prefix, h, child_path) ==
  [ok |-> TRUE, id |-> <<>>, prefix |-> prefix, hash |-> h, child_path |-> child_path]

\* parse.rs:116-173  parse_id
parse_id(raw) ==
  LET id         == to_lowercase(raw)
      first_dot  == find(id, ".")
      search_end == IF first_dot = 0 THEN Len(id) ELSE first_dot - 1
      last_dash  == rfind(SubSeq(id, 1, search_end), "-")
      prefix     == SubSeq(id, 1, last_dash - 1)
      rest       == SubSeq(id, last_dash + 1, Len(id))
      segments   == split(rest, ".")
      h          == segments[1]
      children   == parse_segments(segments, 2)
  IN  IF last_dash = 0 THEN InvalidId(id)
      ELSE IF h = <<>> THEN InvalidId(id)
      ELSE IF \E i \in 1..Len(h) : ~is_base36(h[i]) THEN InvalidId(id)
      ELSE IF Len(h) >= 4 /\ ~contains_digit(h) THEN InvalidId(id)
      ELSE IF ~children.ok THEN InvalidId(id)
      ELSE OkParsed(prefix, h, children.path)

(***************************************************************************)
(* State                                                                   *)
(***************************************************************************)

VARIABLES
  config,      \* the IdConfig of the generator
  item_count,  \* generate's item_count argument
  build,       \* whether integer overflow panics ("debug") or wraps
  seed_fn,     \* generate's seed_fn argument
  g,           \* the generate call in progress
  existing0,   \* the caller's set of existing IDs before the first call
  added,       \* the IDs the caller has added to that set since
  returned,    \* what the caller's generate calls returned, in order
  call,        \* a call of a pure function: its name and arguments
  ret          \* the value that call returned

vars == <<config, item_count, build, seed_fn, g, existing0, added, returned, call, ret>>

gen_inputs == <<config, item_count, build>>
caller_vars == <<existing0, added, returned>>
fn_vars == <<call, ret>>

NoCall == [op |-> "none"]
NoRet == [done |-> FALSE, val |-> <<>>]
Returned(val) == [done |-> TRUE, val |-> val]

\* All sequences over S of a length in lo..hi.
SeqsOf(S, lo, hi) == UNION { [1..k -> S] : k \in lo..hi }

(***************************************************************************)
(* Spec: one generate call against an arbitrary existence oracle           *)
(***************************************************************************)

\* The prefixes of the model's generators.
Prefixes == { <<"b","d">> }

\* The configurations: the default one, and one whose lengths reach 13,
\* where 36^length no longer fits a usize.
GenConfigs ==
  { IdConfig_new(p) : p \in Prefixes }
  \cup { with_max_hash_length(with_min_hash_length(IdConfig_new(p), 13), 13) :
           p \in Prefixes }

GenItemCounts == {0, 200}

SeedFns == { [const |-> TRUE, base |-> 1], [const |-> FALSE, base |-> 1] }

Init ==
  /\ config \in GenConfigs
  /\ item_count \in GenItemCounts
  /\ build \in Builds
  /\ seed_fn \in SeedFns
  /\ g = GenIdle
  /\ existing0 = "empty" /\ added = {} /\ returned = <<>>
  /\ call = NoCall /\ ret = NoRet

\* generate.rs:69
GenStart ==
  /\ g.pc = "start"
  /\ g' = gen_start(config, item_count, build, g)
  /\ UNCHANGED <<gen_inputs, seed_fn, caller_vars, fn_vars>>

\* generate.rs:70-76  one exists call, answered by an arbitrary oracle
Phase1 ==
  /\ g.pc = "phase1"
  /\ \E answer \in BOOLEAN : g' = gen_step(config, seed_fn, g, answer)
  /\ UNCHANGED <<gen_inputs, seed_fn, caller_vars, fn_vars>>

\* generate.rs:79-87
Phase2 ==
  /\ g.pc = "phase2"
  /\ \E answer \in BOOLEAN : g' = gen_step(config, seed_fn, g, answer)
  /\ UNCHANGED <<gen_inputs, seed_fn, caller_vars, fn_vars>>

\* generate.rs:90-96
Phase3 ==
  /\ g.pc = "phase3"
  /\ \E answer \in BOOLEAN : g' = gen_step(config, seed_fn, g, answer)
  /\ UNCHANGED <<gen_inputs, seed_fn, caller_vars, fn_vars>>

\* generate.rs:100-110
Phase4 ==
  /\ g.pc = "phase4"
  /\ \E answer \in BOOLEAN : g' = gen_step(config, seed_fn, g, answer)
  /\ UNCHANGED <<gen_inputs, seed_fn, caller_vars, fn_vars>>

Next == GenStart \/ Phase1 \/ Phase2 \/ Phase3 \/ Phase4

Spec == Init /\ [][Next]_vars

(***************************************************************************)
(* Claims about one generate call                                          *)
(***************************************************************************)

Max(a, b) == IF a >= b THEN a ELSE b

\* The number of candidates of the four tiers.
TierSizes(optimal) ==
  << NonceTries,
     NonceTries * Max(0, config.max_hash_length - optimal),
     LongMaxNonce + 1,
     DesperateMaxNonce + 1 >>

TotalCandidates(optimal) ==
  TierSizes(optimal)[1] + TierSizes(optimal)[2] + TierSizes(optimal)[3]
    + TierSizes(optimal)[4]

\* The k-th candidate (from 0) of the order the claim C2 states.
CandidateInOrder(optimal, k) ==
  LET t  == TierSizes(optimal)
      k2 == k - t[1]
      k3 == k2 - t[2]
      k4 == k3 - t[3]
  IN  IF k < t[1]
        THEN config.prefix \o <<"-">> \o hash(seed_fn_apply(seed_fn, k), optimal)
      ELSE IF k2 < t[2]
        THEN config.prefix \o <<"-">>
               \o hash(seed_fn_apply(seed_fn, k2 % NonceTries),
                       optimal + 1 + (k2 \div NonceTries))
      ELSE IF k3 < t[3]
        THEN config.prefix \o <<"-">> \o hash(seed_fn_apply(seed_fn, k3), 12)
      ELSE config.prefix \o <<"-">> \o hash(seed_fn_apply(seed_fn, 0), 12)
             \o NatToString(k4)

Fallback ==
  config.prefix \o <<"-">> \o hash(seed_fn_apply(seed_fn, 0), 12)
    \o <<".","f","a","l","l","b","a","c","k">>

\* C1 (as stated): the ID generate returns is one the oracle answered false
\* for during the call.
C1_ReturnedWasAnsweredFalse ==
  g.pc = "done" => (g.calls >= 1 /\ ~g.answer /\ g.result = g.query)

\* C1 (amended): the ID generate returns is one the oracle answered false
\* for during the call, unless the oracle answered true for every candidate
\* of all four tiers: then it is the ".fallback" literal, which the oracle
\* was never asked about.
C1_ReturnedFalseOrFallback ==
  g.pc = "done" =>
    \/ g.calls >= 1 /\ ~g.answer /\ g.result = g.query
    \/ /\ g.answer
       /\ g.calls = TotalCandidates(g.optimal)
       /\ g.result = Fallback
       /\ g.result # g.query

\* A call that returned a candidate of the length extension.
C1_Witness ==
  g.pc = "done" /\ ~g.answer /\ g.calls = 25 /\ g.result = g.query

\* C2: the candidates are passed to exists in the fixed order of the four
\* tiers, the call returns the first one answered false, and no exists call
\* follows a false answer.
C2_FixedOrderFirstFalse ==
  /\ g.calls = 1 => g.optimal = optimal_length(config, item_count, build)
  /\ g.calls >= 1 => g.query = CandidateInOrder(g.optimal, g.calls - 1)
  /\ (g.calls >= 1 /\ ~g.answer) => (g.pc = "done" /\ g.result = g.query)
  /\ GenRunning(g) => g.answer
  /\ (g.pc = "done" /\ g.answer) => g.calls = TotalCandidates(g.optimal)

\* The example of the claim: true for tiers 1 and 2 and for the nonces 0..36
\* of tier 3, false for the length-12 candidate of nonce 37.
C2_Witness ==
  /\ g.pc = "done" /\ ~g.answer
  /\ g.calls = NonceTries * (1 + config.max_hash_length - g.optimal) + 38
  /\ g.result = config.prefix \o <<"-">> \o hash(seed_fn_apply(seed_fn, 37), 12)

\* C3: generate is total: it does not fail, and when the oracle answers
\* true for every candidate of all four tiers it returns the ".fallback"
\* literal without passing it to exists.
C3_TotalWithFallback ==
  /\ g.pc # "panicked"
  /\ (g.pc = "done" /\ g.answer) =>
       (g.calls = TotalCandidates(g.optimal) /\ g.result = Fallback
        /\ g.result # g.query)

\* C5: parse_id accepts every ID generate returns and yields the lower-case
\* prefix of the configuration, the generated hash and an empty child path.
C5_ReturnedIdParses ==
  g.pc = "done" =>
    LET parsed == parse_id(g.result)
    IN  /\ parsed.ok
        /\ parsed.prefix = to_lowercase(config.prefix)
        /\ parsed.child_path = <<>>
        /\ g.result = config.prefix \o <<"-">> \o parsed.hash

(***************************************************************************)
(* SpecSeq: a caller that runs generate calls one after another against    *)
(* its set of existing IDs and adds each returned ID to the set            *)
(* (generate.rs:233-257)                                                   *)
(***************************************************************************)

\* The number of generate calls the caller makes.
MaxCalls == 2

\* The value of a decimal numeral of at most five digits without a leading
\* zero, -1 for anything else.
NumeralValue(s) ==
  IF Len(s) = 0 \/ Len(s) > 5 \/ (\E i \in 1..Len(s) : s[i] \notin Digits)
     \/ (Len(s) > 1 /\ s[1] = "0")
  THEN -1
  ELSE LET RECURSIVE val(_, _)
           val(i, acc) == IF i > Len(s) THEN acc
                          ELSE val(i + 1, acc * 10 + DigitValue(s[i]))
       IN  val(1, 0)

\* The caller's sets of existing IDs before the first call: the empty set,
\* and the set of every candidate a call with the constant seed function of
\* seed 1 can test (the hash of that seed at every length, and the
\* 12-character hash followed by each nonce 0..10000).
InitialSets == {"empty", "saturated"}

in_initial_set(kind, id) ==
  LET stem == config.prefix \o <<"-">>
      long == stem \o hash(1, DesperateLength)
  IN  /\ kind = "saturated"
      /\ \/ \E length \in 1..Len(EncodedDigest[1]) : id = stem \o hash(1, length)
         \/ /\ Len(id) > Len(long)
            /\ SubSeq(id, 1, Len(long)) = long
            /\ NumeralValue(SubSeq(id, Len(long) + 1, Len(id))) \in 0..DesperateMaxNonce

\* generate.rs:242  |candidate| generated.contains(candidate)
exists(id) == id \in added \/ in_initial_set(existing0, id)

InitSeq ==
  /\ config \in { IdConfig_new(p) : p \in Prefixes }
  /\ item_count \in GenItemCounts
  /\ build \in Builds
  /\ seed_fn \in SeedFns
  /\ g = GenIdle
  /\ existing0 \in InitialSets /\ added = {} /\ returned = <<>>
  /\ call = NoCall /\ ret = NoRet

\* generate.rs:69
SeqStart ==
  /\ g.pc = "start"
  /\ Len(returned) < MaxCalls
  /\ g' = gen_start(config, item_count, build, g)
  /\ UNCHANGED <<gen_inputs, seed_fn, caller_vars, fn_vars>>

\* generate.rs:70-76  one exists call, answered from the caller's set
SeqPhase1 ==
  /\ g.pc = "phase1"
  /\ g' = gen_step(config, seed_fn, g, exists(gen_query(config, seed_fn, g)))
  /\ UNCHANGED <<gen_inputs, seed_fn, caller_vars, fn_vars>>

\* generate.rs:79-87
SeqPhase2 ==
  /\ g.pc = "phase2"
  /\ g' = gen_step(config, seed_fn, g, exists(gen_query(config, seed_fn, g)))
  /\ UNCHANGED <<gen_inputs, seed_fn, caller_vars, fn_vars>>

\* generate.rs:90-96
SeqPhase3 ==
  /\ g.pc = "phase3"
  /\ g' = gen_step(config, seed_fn, g, exists(gen_query(config, seed_fn, g)))
  /\ UNCHANGED <<gen_inputs, seed_fn, caller_vars, fn_vars>>

\* generate.rs:100-110
SeqPhase4 ==
  /\ g.pc = "phase4"
  /\ g' = gen_step(config, seed_fn, g, exists(gen_query(config, seed_fn, g)))
  /\ UNCHANGED <<gen_inputs, seed_fn, caller_vars, fn_vars>>

\* generate.rs:245  generated.push(id), and the next call's seed function
SeqReturn ==
  /\ g.pc = "done"
  /\ returned' = Append(returned, [id |-> g.result, calls |-> g.calls,
                                   answer |-> g.answer, optimal |-> g.optimal])
  /\ added' = added \cup {g.result}
  /\ g' = GenIdle
  /\ seed_fn' \in SeedFns
  /\ UNCHANGED <<gen_inputs, existing0, fn_vars>>

NextSeq ==
  SeqStart \/ SeqPhase1 \/ SeqPhase2 \/ SeqPhase3 \/ SeqPhase4 \/ SeqReturn

SpecSeq == InitSeq /\ [][NextSeq]_vars

\* Whether a finished call went through all four tiers.
Exhausted(r) == r.answer /\ r.calls = TotalCandidates(r.optimal)

\* C4 (as stated): no ID is returned twice, and no returned ID was already
\* in the caller's set.
C4_NeverReturnedTwice ==
  /\ g.pc = "done" => ~exists(g.result)
  /\ \A i, j \in 1..Len(returned) : i # j => returned[i].id # returned[j].id

\* C4 (amended): an ID returned by a call that did not go through all four
\* tiers was not in the caller's set and was not returned before.
C4_FreshUnlessExhausted ==
  /\ (g.pc = "done" /\ ~Exhausted(g)) => ~exists(g.result)
  /\ \A j \in 1..Len(returned) :
       ~Exhausted(returned[j]) =>
         \A i \in 1..(j - 1) : returned[i].id # returned[j].id

\* Two calls with the same constant seed function: the second found the
\* first one's ID in the set ten times and went on to the next length.
C4_Witness ==
  /\ Len(returned) >= 2
  /\ returned[1].id = <<"b","d","-","3","1","p">>
  /\ returned[2].id = <<"b","d","-","3","1","p","i">>
  /\ returned[2].calls = NonceTries + 1

(***************************************************************************)
(* SpecHash: hash(seed, length) on every seed and length of the model      *)
(***************************************************************************)

\* The largest length asked of hash.
MaxHashArg == 15

InitHash ==
  /\ call \in [op : {"hash"}, seed : Seeds, length : 0..MaxHashArg]
  /\ ret = NoRet
  /\ config = IdConfig_new(<<"b","d">>) /\ item_count = 0 /\ build = "release"
  /\ seed_fn = [const |-> TRUE, base |-> 1] /\ g = GenIdle
  /\ existing0 = "empty" /\ added = {} /\ returned = <<>>

\* hash.rs:27-35
CallHash ==
  /\ call.op = "hash" /\ ~ret.done
  /\ ret' = Returned(hash(call.seed, call.length))
  /\ UNCHANGED <<gen_inputs, seed_fn, g, caller_vars, call>>

NextHash == CallHash

SpecHash == InitHash /\ [][NextHash]_vars

\* C9: hash(seed, length) has exactly `length` characters, all in [0-9a-z]:
\* the first `length` characters of the base36 encoding of the digest when
\* the encoding has that many, and otherwise the encoding behind as many
\* '0' characters as are missing.
C9_HashExactLength ==
  ret.done =>
    LET encoded == base36_encode(compute_hash(call.seed))
        out     == ret.val
    IN  /\ Len(out) = call.length
        /\ \A i \in 1..Len(out) : out[i] \in Digits \cup LowerLetters
        /\ Len(encoded) >= call.length =>
             \A i \in 1..call.length : out[i] = encoded[i]
        /\ Len(encoded) < call.length =>
             LET pad == call.length - Len(encoded)
             IN  /\ \A i \in 1..pad : out[i] = "0"
                 /\ \A i \in 1..Len(encoded) : out[pad + i] = encoded[i]

\* A digest whose encoding is shorter than the length asked: "z" padded to
\* twelve characters.
C9_Witness ==
  /\ ret.done /\ call.seed = 8 /\ call.length = 12
  /\ ret.val = <<"0","0","0","0","0","0","0","0","0","0","0","z">>

(***************************************************************************)
(* SpecOpt: optimal_length on the configurations the builder can produce   *)
(***************************************************************************)

OptItemCounts == {0, 50, 200, 7000, 46340}

BuilderConfigs ==
  { with_max_collision_prob(
      with_max_hash_length(
        with_min_hash_length(IdConfig_new(<<"b","d">>), lo), hi), prob) :
      lo \in 0..MaxConfigLength, hi \in 0..MaxConfigLength, prob \in Probs }

InitOpt ==
  /\ call \in [op : {"optimal_length"}, item_count : OptItemCounts]
  /\ ret = NoRet
  /\ config \in BuilderConfigs
  /\ build \in Builds
  /\ item_count = call.item_count
  /\ seed_fn = [const |-> TRUE, base |-> 1] /\ g = GenIdle
  /\ existing0 = "empty" /\ added = {} /\ returned = <<>>

\* generate.rs:26-41
CallOptimalLength ==
  /\ call.op = "optimal_length" /\ ~ret.done
  /\ ret' = Returned(optimal_length(config, call.item_count, build))
  /\ UNCHANGED <<gen_inputs, seed_fn, g, caller_vars, call>>

NextOpt == CallOptimalLength

SpecOpt == InitOpt /\ [][NextOpt]_vars

\* 36^length as a mathematical integer, capped at 2^64 - 1: the powers that
\* fit 64 bits are exact, the others are replaced by the largest 64-bit
\* value, which is above every n^2 * KDen / (2 K) of the model.
CappedPow36(length) ==
  IF Pow36[length + 1][2] THEN [i \in 1..UsizeLimbs |-> LimbBase - 1]
  ELSE Pow36[length + 1][1]

\* The birthday approximation 1 - e^(-n^2 / (2 * 36^length)) is strictly
\* below the probability: n^2 < 2 * 36^length * -ln(1 - p).
BirthdayBelow(n, length, prob) ==
  LimbLess(scaled_square(n, prob), CappedPow36(length))

\* C7: optimal_length returns the smallest length between min_hash_length
\* and max_hash_length whose collision probability is strictly below
\* max_collision_prob, and max_hash_length when there is none.
C7_SmallestSufficientLength ==
  ret.done =>
    LET good == { length \in config.min_hash_length..config.max_hash_length :
                    BirthdayBelow(call.item_count, length, config.max_collision_prob) }
    IN  /\ ret.val # Panic
        /\ good # {} => (ret.val \in good /\ \A length \in good : ret.val <= length)
        /\ good = {} => ret.val = config.max_hash_length

\* C8: for every configuration the builder can produce, optimal_length
\* returns normally, with a value from min_hash_length to max_hash_length.
C8_ReturnsWithinBounds ==
  ret.done =>
    /\ ret.val # Panic
    /\ config.min_hash_length <= ret.val
    /\ ret.val <= config.max_hash_length

(***************************************************************************)
(* SpecParse: to_id_string and parse_id on the ParsedId values of the      *)
(* model                                                                   *)
(***************************************************************************)

\* Bounds of the ParsedId values.
MaxPrefixLen == 2
MaxHashLen == 4
MaxDepth == 2

PrefixChars == {"a", "7", "-"}
HashChars == {"a", "7"}
\* 0, 10 and 2^32 - 1
U32Samples == { <<0, 0>>, <<0, 10>>, <<65535, 65535>> }

ParsedIds ==
  [prefix : SeqsOf(PrefixChars, 1, MaxPrefixLen),
   hash : SeqsOf(HashChars, 1, MaxHashLen),
   child_path : SeqsOf(U32Samples, 0, MaxDepth)]

InitParse ==
  /\ call \in [op : {"roundtrip"}, p : ParsedIds]
  /\ ret = NoRet
  /\ config = IdConfig_new(<<"b","d">>) /\ item_count = 0 /\ build = "release"
  /\ seed_fn = [const |-> TRUE, base |-> 1] /\ g = GenIdle
  /\ existing0 = "empty" /\ added = {} /\ returned = <<>>

\* parse.rs:41-48 and 116-173  parse_id(&p.to_id_string())
CallRoundTrip ==
  /\ call.op = "roundtrip" /\ ~ret.done
  /\ LET id == to_id_string(call.p)
     IN  ret' = Returned([id |-> id, parsed |-> parse_id(id)])
  /\ UNCHANGED <<gen_inputs, seed_fn, g, caller_vars, call>>

NextParse == CallRoundTrip

SpecParse == InitParse /\ [][NextParse]_vars

SameParsedId(parsed, p) ==
  /\ parsed.ok
  /\ parsed.prefix = p.prefix
  /\ parsed.hash = p.hash
  /\ parsed.child_path = p.child_path

\* C10 (as stated): for every ParsedId with a non-empty lower-case prefix
\* (hyphens allowed), a non-empty lower-case base36 hash and any child path,
\* parse_id(p.to_id_string()) succeeds and equals p.
C10_RoundTrip ==
  ret.done => SameParsedId(ret.val.parsed, call.p)

\* C10 (amended): the same, for the ParsedIds whose hash has fewer than four
\* characters or contains a decimal digit.
C10_RoundTripOfGrammarHash ==
  (ret.done /\ (Len(call.p.hash) < 4 \/ \E i \in 1..Len(call.p.hash) :
                                          call.p.hash[i] \in Digits))
    => SameParsedId(ret.val.parsed, call.p)

\* A hyphenated prefix, a four-character hash with a digit and a child path
\* that ends in 2^32 - 1.
C10_Witness ==
  /\ ret.done
  /\ call.p = [prefix |-> <<"a","-">>, hash |-> <<"a","a","a","7">>,
               child_path |-> << <<0, 10>>, <<65535, 65535>> >>]
  /\ ret.val.id = <<"a","-","-","a","a","a","7",".","1","0",".",
                    "4","2","9","4","9","6","7","2","9","5">>
  /\ SameParsedId(ret.val.parsed, call.p)

(***************************************************************************)
(* Derived parser operations (parse.rs)                                    *)
(***************************************************************************)

\* parse.rs:184-186  normalize_id
normalize_id(id) == to_lowercase(id)

\* parse.rs:179-181  is_valid_id_format
is_valid_id_format(id) == parse_id(id).ok

\* parse.rs:16-18  ParsedId::is_root
is_root(parsed) == parsed.child_path = <<>>

\* parse.rs:21-23  ParsedId::depth
depth(parsed) == Len(parsed.child_path)

\* Option<String>
None == [some |-> FALSE, val |-> <<>>]
Some(val) == [some |-> TRUE, val |-> val]

\* parse.rs:28-36  ParsedId::parent
parent(parsed) ==
  IF parsed.child_path = <<>> THEN None
  ELSE Some(to_id_string(
         [parsed EXCEPT !.child_path = SubSeq(parsed.child_path, 1,
                                              Len(parsed.child_path) - 1)]))

\* is_child_of without the test that self is deeper.
is_child_of_not_deeper(self, potential_parent) ==
  LET p == parse_id(potential_parent)
  IN  IF ~p.ok THEN FALSE
      ELSE IF self.prefix # p.prefix \/ self.hash # p.hash THEN FALSE
      ELSE \A i \in 1..Len(self.child_path) :
             i <= Len(p.child_path) => self.child_path[i] = p.child_path[i]

\* parse.rs:56-77  ParsedId::is_child_of
is_child_of(self, potential_parent) ==
  LET p == parse_id(potential_parent)
  IN  IF ~p.ok THEN FALSE
      ELSE IF self.prefix # p.prefix \/ self.hash # p.hash THEN FALSE
      ELSE IF Len(self.child_path) <= Len(p.child_path) THEN FALSE
      ELSE \A i \in 1..Len(self.child_path) :
             i <= Len(p.child_path) => self.child_path[i] = p.child_path[i]

\* Result<(), TerseIdError> of validate_prefix
PrefixOk == [kind |-> "Ok", id |-> <<>>, expected |-> <<>>, found |-> <<>>]
PrefixInvalidId(id) ==
  [kind |-> "InvalidId", id |-> id, expected |-> <<>>, found |-> <<>>]
PrefixMismatch(expected, found) ==
  [kind |-> "PrefixMismatch", id |-> <<>>, expected |-> expected, found |-> found]

\* validate_prefix without the list of allowed prefixes.
validate_prefix_expected_only(id, expected, allowed) ==
  LET parsed == parse_id(id)
  IN  IF ~parsed.ok THEN PrefixInvalidId(parsed.id)
      ELSE IF parsed.prefix = expected THEN PrefixOk
      ELSE PrefixMismatch(expected, parsed.prefix)

\* parse.rs:196-211  validate_prefix (allowed is a set: the code only asks
\* whether it contains the prefix)
validate_prefix(id, expected, allowed) ==
  LET parsed == parse_id(id)
  IN  IF ~parsed.ok THEN PrefixInvalidId(parsed.id)
      ELSE IF parsed.prefix = expected THEN PrefixOk
      ELSE IF parsed.prefix \in allowed THEN PrefixOk
      ELSE PrefixMismatch(expected, parsed.prefix)

(***************************************************************************)
(* Child IDs (children.rs)                                                 *)
(***************************************************************************)

\* child_id without the dot.
child_id_plain(parent_id, child_number) ==
  parent_id \o u32_to_string(child_number)

\* children.rs:22-24  child_id: format!("{}.{}", parent_id, child_number)
child_id(parent_id, child_number) ==
  parent_id \o <<".">> \o u32_to_string(child_number)

\* is_child_id that looks for a dot instead of parsing.
is_child_id_by_dot(id) == \E i \in 1..Len(id) : id[i] = "."

\* children.rs:40-45  is_child_id
is_child_id(id) ==
  LET parsed == parse_id(id)
  IN  IF parsed.ok THEN parsed.child_path # <<>> ELSE FALSE

\* children.rs:62-67  id_depth
id_depth(id) ==
  LET parsed == parse_id(id)
  IN  IF parsed.ok THEN depth(parsed) ELSE 0

(***************************************************************************)
(* SpecId: parse_id, parse_id followed by to_id_string, is_child_id and    *)
(* id_depth on the input strings of the model                              *)
(***************************************************************************)

\* The characters and the largest length of the strings taken whole.
IdChars == {"a", "A", "7", "-", ".", "+"}
MaxFreeLen == 4

FreeStrings == SeqsOf(IdChars, 0, MaxFreeLen)

\* The parts of the composed strings: what stands before the last hyphen,
\* the hash segment, and the child segments ("0", "10", "4294967295",
\* "4294967296", "+1", "-1", "01", "" and "x").
PrefixParts == { <<"a">>, <<"B">>, <<"a","-","b">>, <<>> }

HashParts ==
  { <<"7">>, <<"a","b","c">>, <<"a","b","c","x">>, <<"A","B","7","X">>,
    <<"a","_","7">>, <<>> }

SegmentParts ==
  { <<"0">>, <<"1","0">>,
    <<"4","2","9","4","9","6","7","2","9","5">>,
    <<"4","2","9","4","9","6","7","2","9","6">>,
    <<"+","1">>, <<"-","1">>, <<"0","1">>, <<>>, <<"x">> }

\* The largest number of child segments of a composed string.
MaxSegments == 2

\* Each segment behind a dot.
RECURSIVE DotJoin(_)
DotJoin(segments) ==
  IF segments = <<>> THEN <<>>
  ELSE <<".">> \o Head(segments) \o DotJoin(Tail(segments))

ComposedStrings ==
  { pp \o <<"-">> \o hp \o DotJoin(segs) :
      pp \in PrefixParts, hp \in HashParts,
      segs \in SeqsOf(SegmentParts, 0, MaxSegments) }

IdInputs == FreeStrings \cup ComposedStrings

\* The variables of the generator, at rest.
GeneratorAtRest ==
  /\ config = IdConfig_new(<<"b","d">>) /\ item_count = 0 /\ build = "release"
  /\ seed_fn = [const |-> TRUE, base |-> 1] /\ g = GenIdle
  /\ existing0 = "empty" /\ added = {} /\ returned = <<>>

InitId ==
  /\ call \in [op : {"parse_id", "reserialize", "depth"}, id : IdInputs]
  /\ ret = NoRet
  /\ GeneratorAtRest

\* parse.rs:116-173
CallParseId ==
  /\ call.op = "parse_id" /\ ~ret.done
  /\ ret' = Returned(parse_id(call.id))
  /\ UNCHANGED <<gen_inputs, seed_fn, g, caller_vars, call>>

\* parse.rs:116-173 and 41-48  parse_id(s).map(|p| p.to_id_string())
CallReserialize ==
  /\ call.op = "reserialize" /\ ~ret.done
  /\ LET parsed == parse_id(call.id)
     IN  ret' = Returned([ok |-> parsed.ok,
                          id |-> IF parsed.ok THEN to_id_string(parsed) ELSE <<>>])
  /\ UNCHANGED <<gen_inputs, seed_fn, g, caller_vars, call>>

\* children.rs:40-45 and 62-67  is_child_id(id) and id_depth(id)
CallDepth ==
  /\ call.op = "depth" /\ ~ret.done
  /\ ret' = Returned([is_child_id |-> is_child_id(call.id),
                      id_depth |-> id_depth(call.id)])
  /\ UNCHANGED <<gen_inputs, seed_fn, g, caller_vars, call>>

NextId == CallParseId \/ CallReserialize \/ CallDepth

SpecId == InitId /\ [][NextId]_vars

(***************************************************************************)
(* Claims about parse_id on strings                                        *)
(***************************************************************************)

\* The input in lower case, up to its first dot and behind it.
HeadRegion(id) ==
  LET low == to_lowercase(id)
      dot == find(low, ".")
  IN  IF dot = 0 THEN low ELSE SubSeq(low, 1, dot - 1)

ChildSegments(id) ==
  LET low == to_lowercase(id)
      dot == find(low, ".")
  IN  IF dot = 0 THEN <<>> ELSE split(SubSeq(low, dot + 1, Len(low)), ".")

\* A decimal numeral without sign and without superfluous leading zeros.
IsCanonicalNumeral(seg) ==
  /\ seg # <<>>
  /\ \A i \in 1..Len(seg) : seg[i] \in Digits
  /\ Len(seg) > 1 => seg[1] # "0"

\* The numeral of a segment written "+"? digits: the sign and the leading
\* zeros dropped.
CanonicalNumeral(seg) ==
  LET digits == IF seg # <<>> /\ seg[1] = "+" THEN Tail(seg) ELSE seg
      nonzero == { i \in 1..Len(digits) : digits[i] # "0" }
      start  == IF nonzero = {} THEN Len(digits)
                ELSE CHOOSE i \in nonzero : \A j \in nonzero : i <= j
  IN  SubSeq(digits, start, Len(digits))

CanonicalForm(id) ==
  LET segs == ChildSegments(id)
  IN  HeadRegion(id) \o DotJoin([i \in 1..Len(segs) |-> CanonicalNumeral(segs[i])])

\* C11 (as stated): for every string parse_id accepts, to_id_string of the
\* result is the input in lower case.
C11_ReserializeIsNormalized ==
  (ret.done /\ call.op = "reserialize" /\ ret.val.ok)
    => ret.val.id = normalize_id(call.id)

\* C11 (amended): for every string parse_id accepts, to_id_string of the
\* result is the input in lower case with every child segment rewritten as
\* the decimal numeral of its value (a leading '+' and leading zeros
\* dropped); it is the lower-case input itself exactly when every child
\* segment already is such a numeral.
C11_ReserializeIsCanonical ==
  (ret.done /\ call.op = "reserialize" /\ ret.val.ok)
    => /\ ret.val.id = CanonicalForm(call.id)
       /\ (ret.val.id = normalize_id(call.id))
            <=> \A i \in 1..Len(ChildSegments(call.id)) :
                  IsCanonicalNumeral(ChildSegments(call.id)[i])

\* An accepted input in upper case with a leading zero and a sign.
C11_Witness ==
  /\ ret.done /\ call.op = "reserialize" /\ ret.val.ok
  /\ call.id = <<"B","-","A","B","7","X",".","0","1",".","+","1">>
  /\ ret.val.id = <<"b","-","a","b","7","x",".","1",".","1">>

\* The positions of the hyphens of the head region, the last of them, and
\* the hash segment: what stands between that hyphen and the first dot.
HeadDashes(id) == { i \in 1..Len(HeadRegion(id)) : HeadRegion(id)[i] = "-" }

SplitPoint(id) == CHOOSE i \in HeadDashes(id) : \A j \in HeadDashes(id) : j <= i

HashSegment(id) == SubSeq(HeadRegion(id), SplitPoint(id) + 1, Len(HeadRegion(id)))

\* C12: parse_id splits the prefix from the hash at the last '-' before the
\* first '.' (of the whole string when there is no '.'): an accepted input
\* has such a hyphen and its prefix is everything before it, further
\* hyphens included, so that an input with several hyphens before a hash
\* "7" or "abc" is accepted; an input with no '-' before the first '.' is
\* rejected with InvalidId.
C12_SplitAtLastDashOfHead ==
  (ret.done /\ call.op = "parse_id")
    => /\ HeadDashes(call.id) = {} => ~ret.val.ok
       /\ ret.val.ok =>
            /\ HeadDashes(call.id) # {}
            /\ ret.val.prefix = SubSeq(HeadRegion(call.id), 1, SplitPoint(call.id) - 1)
            /\ ret.val.hash = HashSegment(call.id)
       /\ (Cardinality(HeadDashes(call.id)) > 1 /\ ChildSegments(call.id) = <<>>
             /\ HashSegment(call.id) \in {<<"7">>, <<"a","b","c">>})
            => ret.val.ok

\* An accepted input whose prefix holds a hyphen and whose child path holds
\* none before the dot.
C12_Witness ==
  /\ ret.done /\ call.op = "parse_id" /\ ret.val.ok
  /\ call.id = <<"a","-","b","-","7",".","1","0">>
  /\ ret.val.prefix = <<"a","-","b">>

\* The hash rule, stated on the characters: non-empty, digits and lower-case
\* letters only, and a digit among them from four characters on.
GoodHash(h) ==
  /\ h # <<>>
  /\ \A i \in 1..Len(h) : h[i] \in Digits \cup LowerLetters
  /\ Len(h) < 4 \/ \E i \in 1..Len(h) : h[i] \in Digits

\* C13: parse_id accepts a hash segment if and only if it is non-empty, made
\* of base36 characters only, and shorter than 4 characters or holding a
\* decimal digit: an input whose hash segment is otherwise is rejected with
\* InvalidId, and an input with such a hash segment and no child segment is
\* accepted.
C13_HashAcceptedIffGood ==
  (ret.done /\ call.op = "parse_id" /\ HeadDashes(call.id) # {})
    => /\ ret.val.ok => GoodHash(HashSegment(call.id))
       /\ (GoodHash(HashSegment(call.id)) /\ ChildSegments(call.id) = <<>>)
            => ret.val.ok

\* A hash of four characters with a digit behind letters, accepted.
C13_Witness ==
  /\ ret.done /\ call.op = "parse_id" /\ ret.val.ok
  /\ call.id = <<"a","-","A","B","7","X">>
  /\ ret.val.hash = <<"a","b","7","x">>

\* The numeral 2^32 - 1, and the order of two digit strings of one length.
U32MaxNumeral == <<"4","2","9","4","9","6","7","2","9","5">>

NumeralAtMost(a, b) ==
  \/ a = b
  \/ \E i \in 1..Len(a) :
       /\ DigitValue(a[i]) < DigitValue(b[i])
       /\ \A j \in 1..(i - 1) : a[j] = b[j]

\* A plain unsigned decimal numeral of value at most 2^32 - 1.
PlainU32Numeral(seg) ==
  /\ seg # <<>>
  /\ \A i \in 1..Len(seg) : seg[i] \in Digits
  /\ LET n == CanonicalNumeral(seg)
     IN  \/ Len(n) < Len(U32MaxNumeral)
         \/ Len(n) = Len(U32MaxNumeral) /\ NumeralAtMost(n, U32MaxNumeral)

\* C14: parse_id accepts an input only when every child segment is a plain
\* unsigned decimal numeral, digits only and without sign, of value at most
\* 2^32 - 1.
C14_SegmentsArePlainNumerals ==
  (ret.done /\ call.op = "parse_id" /\ ret.val.ok)
    => \A i \in 1..Len(ChildSegments(call.id)) :
         PlainU32Numeral(ChildSegments(call.id)[i])

\* C15: whenever parse_id rejects an input the error carries the input as
\* the caller passed it.
C15_ErrorCarriesOriginalInput ==
  (ret.done /\ call.op = "parse_id" /\ ~ret.val.ok) => ret.val.id = call.id

(***************************************************************************)
(* SpecDerived: validate_prefix, child_id followed by parse_id, parent and *)
(* is_child_of, and parent of a parsed input                               *)
(***************************************************************************)

\* The largest length of the short strings taken whole.
MaxShortLen == 2

ShortStrings == SeqsOf(IdChars, 0, MaxShortLen)

\* Prefix, hyphen and hash; the same with at most one child segment.
RootStrings == { pp \o <<"-">> \o hp : pp \in PrefixParts, hp \in HashParts }

OneSegmentStrings ==
  { root \o DotJoin(segs) : root \in RootStrings, segs \in SeqsOf(SegmentParts, 0, 1) }

\* The expected prefixes and the members of the allowed lists.
ExpectedPrefixes == { <<"a">>, <<"b">>, <<"B">>, <<"a","-","b">>, <<>> }
AllowedPrefixes == { <<"a">>, <<"b">>, <<"a","-","b">>, <<>> }

ValidatePrefixCalls ==
  [op : {"validate_prefix"}, id : ShortStrings \cup RootStrings,
   expected : ExpectedPrefixes, allowed : SUBSET AllowedPrefixes]

ChildIdCalls ==
  [op : {"child_id"}, id : ShortStrings \cup OneSegmentStrings,
   child_number : U32Samples]

ParentCalls == [op : {"parent"}, id : ShortStrings \cup OneSegmentStrings]

InitDerived ==
  /\ call \in ValidatePrefixCalls \cup ChildIdCalls \cup ParentCalls
  /\ ret = NoRet
  /\ GeneratorAtRest

\* parse.rs:196-211
CallValidatePrefix ==
  /\ call.op = "validate_prefix" /\ ~ret.done
  /\ ret' = Returned(validate_prefix(call.id, call.expected, call.allowed))
  /\ UNCHANGED <<gen_inputs, seed_fn, g, caller_vars, call>>

\* children.rs:22-24, then parse_id of the child and, when it parses,
\* parent() and is_child_of(the parent string) of the result
CallChildId ==
  /\ call.op = "child_id" /\ ~ret.done
  /\ LET child  == child_id(call.id, call.child_number)
         parsed == parse_id(child)
     IN  ret' = Returned([id          |-> child,
                          parsed      |-> parsed,
                          parent      |-> IF parsed.ok THEN parent(parsed) ELSE None,
                          is_child_of |-> IF parsed.ok THEN is_child_of(parsed, call.id)
                                          ELSE FALSE])
  /\ UNCHANGED <<gen_inputs, seed_fn, g, caller_vars, call>>

\* parse.rs:28-36  parse_id(id).map(|p| p.parent())
CallParent ==
  /\ call.op = "parent" /\ ~ret.done
  /\ LET parsed == parse_id(call.id)
     IN  ret' = Returned([ok     |-> parsed.ok,
                          parent |-> IF parsed.ok THEN parent(parsed) ELSE None])
  /\ UNCHANGED <<gen_inputs, seed_fn, g, caller_vars, call>>

NextDerived == CallValidatePrefix \/ CallChildId \/ CallParent

SpecDerived == InitDerived /\ [][NextDerived]_vars

\* C16: validate_prefix(id, expected, allowed) returns Ok exactly when id
\* parses and its parsed prefix equals expected or is in allowed; when id
\* parses and the prefix is neither it returns PrefixMismatch with expected
\* and the parsed prefix; when id does not parse it returns InvalidId.
C16_ValidatePrefixCases ==
  (ret.done /\ call.op = "validate_prefix")
    => LET parsed  == parse_id(call.id)
           matches == parsed.prefix = call.expected \/ parsed.prefix \in call.allowed
       IN  /\ ret.val.kind = "Ok" <=> (parsed.ok /\ matches)
           /\ (parsed.ok /\ ~matches)
                => ret.val = PrefixMismatch(call.expected, parsed.prefix)
           /\ ~parsed.ok => ret.val.kind = "InvalidId"

\* An upper-case id whose prefix is not the expected one but is allowed.
C16_Witness ==
  /\ ret.done /\ call.op = "validate_prefix"
  /\ call.id = <<"B","-","7">> /\ call.expected = <<"a">>
  /\ call.allowed = { <<"b">>, <<"a","-","b">> }
  /\ ret.val.kind = "Ok"

\* C18: for every string s that parse_id accepts and every u32 n, the string
\* child_id(s, n) parses with the prefix and the hash of s and the child
\* path of s followed by n, so that its depth is id_depth(s) + 1; its
\* parent() is s in canonical form and it is_child_of(s); parent() of a
\* root is None.
C18_ChildIdAndParentAreInverse ==
  /\ (ret.done /\ call.op = "child_id" /\ parse_id(call.id).ok)
       => LET s == parse_id(call.id)
          IN  /\ ret.val.parsed.ok
              /\ ret.val.parsed.prefix = s.prefix
              /\ ret.val.parsed.hash = s.hash
              /\ ret.val.parsed.child_path = Append(s.child_path, call.child_number)
              /\ depth(ret.val.parsed) = id_depth(call.id) + 1
              /\ ret.val.parent = Some(CanonicalForm(call.id))
              /\ ret.val.is_child_of
  /\ (ret.done /\ call.op = "parent" /\ ret.val.ok)
       => (ret.val.parent = None <=> ChildSegments(call.id) = <<>>)

\* A child of an accepted parent written with a sign: its parent() is the
\* parent in canonical form.
C18_Witness ==
  /\ ret.done /\ call.op = "child_id"
  /\ call.id = <<"a","-","7",".","+","1">> /\ call.child_number = <<0, 10>>
  /\ ret.val.id = <<"a","-","7",".","+","1",".","1","0">>
  /\ ret.val.parsed.ok /\ ret.val.parsed.child_path = << <<0, 1>>, <<0, 10>> >>
  /\ ret.val.parent = Some(<<"a","-","7",".","1">>)
  /\ ret.val.is_child_of

\* C19: is_child_id and id_depth never report an error: for an input that
\* parse_id rejects they return false and 0; for an input that parse_id
\* accepts id_depth is the number of child segments and is_child_id holds
\* exactly when id_depth is positive.
C19_DepthHelpersAreTotal ==
  (ret.done /\ call.op = "depth")
    => /\ ret.val.is_child_id \in BOOLEAN /\ ret.val.id_depth \in Nat
       /\ ~parse_id(call.id).ok
            => (~ret.val.is_child_id /\ ret.val.id_depth = 0)
       /\ parse_id(call.id).ok
            => /\ ret.val.id_depth = Len(ChildSegments(call.id))
               /\ ret.val.is_child_id <=> ret.val.id_depth > 0

\* A rejected input with a dot: not a child, depth 0.
C19_Witness ==
  /\ ret.done /\ call.op = "depth"
  /\ call.id = <<"a",".","7">> /\ ~parse_id(call.id).ok
  /\ ~ret.val.is_child_id /\ ret.val.id_depth = 0

(***************************************************************************)
(* SpecRel: p.is_child_of(c) for a parsed ID p and a string c              *)
(***************************************************************************)

\* The deepest child path of the IDs of the relation.
MaxRelDepth == 3

\* IDs of one hash under two prefixes, one of them in upper case, with
\* child segments "0" and "+1"; an ID of another hash, an ID of another
\* prefix in upper case, and strings that do not parse.
RelIds ==
  { pp \o <<"-","7">> \o DotJoin(segs) :
      pp \in { <<"a">>, <<"B">> },
      segs \in SeqsOf({ <<"0">>, <<"+","1">> }, 0, MaxRelDepth) }

RelStrings ==
  RelIds \cup { <<"a","-","a">>, <<"a","-","a",".","0">>, <<"A","-","7",".","0">>,
                <<"a">>, <<>>, <<"a","-","7",".","x">> }

InitRel ==
  /\ call \in [op : {"is_child_of"}, self : RelIds, id : RelStrings]
  /\ ret = NoRet
  /\ GeneratorAtRest

\* parse.rs:56-77  parse_id(self).unwrap().is_child_of(id)
CallIsChildOf ==
  /\ call.op = "is_child_of" /\ ~ret.done
  /\ ret' = Returned(is_child_of(parse_id(call.self), call.id))
  /\ UNCHANGED <<gen_inputs, seed_fn, g, caller_vars, call>>

NextRel == CallIsChildOf

SpecRel == InitRel /\ [][NextRel]_vars

\* a is a strict prefix of b: shorter, and equal to b element by element.
StrictPrefix(a, b) ==
  /\ Len(a) < Len(b)
  /\ \A i \in 1..Len(a) : a[i] = b[i]

\* C17: p.is_child_of(c) is true exactly when c parses, has the prefix and
\* the hash of p, and the child path of c is a strict prefix of the child
\* path of p; so no ID is a child of itself, a child's parent is never a
\* child of that child, a child of a child of d is a child of d, and an
\* unparseable c gives false.
C17_IsChildOfIsStrictPrefix ==
  (ret.done /\ call.op = "is_child_of")
    => LET p == parse_id(call.self)
           c == parse_id(call.id)
       IN  /\ ret.val <=> /\ c.ok
                          /\ c.prefix = p.prefix /\ c.hash = p.hash
                          /\ StrictPrefix(c.child_path, p.child_path)
           /\ ~c.ok => ~ret.val
           /\ ~is_child_of(p, call.self)
           /\ ret.val => ~is_child_of(c, call.self)
           /\ ret.val => \A d \in RelStrings :
                           is_child_of(c, d) => is_child_of(p, d)

\* A grandchild and its grandparent written in upper case.
C17_Witness ==
  /\ ret.done /\ call.op = "is_child_of" /\ ret.val
  /\ call.self = <<"a","-","7",".","0",".","+","1">>
  /\ call.id = <<"A","-","7",".","0">>

(***************************************************************************)
(* Resolver (resolve.rs)                                                   *)
(***************************************************************************)

\* char::is_whitespace, on the characters the model's inputs use.
Whitespace == {" "}

\* str::trim: the text between the first and the last character that is
\* not whitespace.
trim(s) ==
  LET kept == { i \in 1..Len(s) : s[i] \notin Whitespace }
  IN  IF kept = {} THEN <<>>
      ELSE SubSeq(s, CHOOSE i \in kept : \A j \in kept : i <= j,
                     CHOOSE i \in kept : \A j \in kept : j <= i)

\* str::contains(char)
contains(s, c) == \E i \in 1..Len(s) : s[i] = c

\* resolve.rs:17-23  ResolverConfig::new
ResolverConfig_new(default_prefix) ==
  [default_prefix |-> default_prefix, allowed_prefixes |-> <<>>,
   allow_substring_match |-> TRUE]

\* resolve.rs:28-35  MatchType
MatchType == {"Exact", "PrefixNormalized", "Substring"}

\* Ok(ResolvedId { id, match_type, original_input })
Resolved(id, match_type, original_input) ==
  [kind |-> "Ok", id |-> id, match_type |-> match_type,
   original_input |-> original_input, partial |-> <<>>, matches |-> <<>>]

\* Err(TerseIdError::AmbiguousId { partial, matches })
AmbiguousId(partial, matches) ==
  [kind |-> "AmbiguousId", id |-> <<>>, match_type |-> "",
   original_input |-> <<>>, partial |-> partial, matches |-> matches]

\* Err(TerseIdError::NotFound { id })
NotFound(id) ==
  [kind |-> "NotFound", id |-> id, match_type |-> "",
   original_input |-> <<>>, partial |-> <<>>, matches |-> <<>>]

\* resolve.rs:54-56  IdResolver::new
IdResolver_new(resolver_config) == [config |-> resolver_config]

\* resolve that takes the first entry of any non-empty list of matches.
resolve_first_match(self, input, exists_fn, substring_match_fn) ==
  LET original_input == input
      normalized     == trim(to_lowercase(input))
      prefixed       == self.config.default_prefix \o <<"-">> \o normalized
      matches        == substring_match_fn
  IN  IF normalized \in exists_fn
      THEN Resolved(normalized, "Exact", original_input)
      ELSE IF ~contains(normalized, "-") /\ prefixed \in exists_fn
      THEN Resolved(prefixed, "PrefixNormalized", original_input)
      ELSE IF self.config.allow_substring_match /\ Len(matches) >= 1
      THEN Resolved(matches[1], "Substring", original_input)
      ELSE NotFound(normalized)

\* resolve that asks the substring matcher whether or not substring matching
\* is allowed.
resolve_substring_always(self, input, exists_fn, substring_match_fn) ==
  LET original_input == input
      normalized     == trim(to_lowercase(input))
      prefixed       == self.config.default_prefix \o <<"-">> \o normalized
      matches        == substring_match_fn
  IN  IF normalized \in exists_fn
      THEN Resolved(normalized, "Exact", original_input)
      ELSE IF ~contains(normalized, "-") /\ prefixed \in exists_fn
      THEN Resolved(prefixed, "PrefixNormalized", original_input)
      ELSE IF Len(matches) = 1
      THEN Resolved(matches[1], "Substring", original_input)
      ELSE IF Len(matches) > 1
      THEN AmbiguousId(normalized, matches)
      ELSE NotFound(normalized)

\* resolve with the prefix-normalized form tried before the exact one.
resolve_prefixed_first(self, input, exists_fn, substring_match_fn) ==
  LET original_input == input
      normalized     == trim(to_lowercase(input))
      prefixed       == self.config.default_prefix \o <<"-">> \o normalized
      matches        == substring_match_fn
  IN  IF ~contains(normalized, "-") /\ prefixed \in exists_fn
      THEN Resolved(prefixed, "PrefixNormalized", original_input)
      ELSE IF normalized \in exists_fn
      THEN Resolved(normalized, "Exact", original_input)
      ELSE IF self.config.allow_substring_match /\ Len(matches) = 1
      THEN Resolved(matches[1], "Substring", original_input)
      ELSE IF self.config.allow_substring_match /\ Len(matches) > 1
      THEN AmbiguousId(normalized, matches)
      ELSE NotFound(normalized)

\* resolve.rs:67-128  IdResolver::resolve.  exists_fn is the set of the
\* strings it answers true for; substring_match_fn is the list it returns
\* for the normalized input.
resolve(self, input, exists_fn, substring_match_fn) ==
  LET original_input == input
      normalized     == trim(to_lowercase(input))
      prefixed       == self.config.default_prefix \o <<"-">> \o normalized
      matches        == substring_match_fn
  IN  IF normalized \in exists_fn
      THEN Resolved(normalized, "Exact", original_input)
      ELSE IF ~contains(normalized, "-") /\ prefixed \in exists_fn
      THEN Resolved(prefixed, "PrefixNormalized", original_input)
      ELSE IF self.config.allow_substring_match /\ Len(matches) = 1
      THEN Resolved(matches[1], "Substring", original_input)
      ELSE IF self.config.allow_substring_match /\ Len(matches) > 1
      THEN AmbiguousId(normalized, matches)
      ELSE NotFound(normalized)

(***************************************************************************)
(* SpecResolve: one resolve call                                           *)
(***************************************************************************)

\* The longest list substring_match_fn returns.
MaxMatches == 2

\* The inputs: with and without hyphen, in upper case, empty, and each of
\* them between spaces.
ResolveCores ==
  { <<"a","7">>, <<"A","7">>, <<"b","-","a","7">>, <<"B","-","A","7">>,
    <<"7">>, <<>> }

ResolveInputs ==
  { l \o core \o r : l \in {<<>>, <<" ">>}, core \in ResolveCores,
                     r \in {<<>>, <<" ">>} }

\* The IDs exists_fn may answer true for, and the entries of the lists
\* substring_match_fn may return.
KnownIds ==
  { <<"a","7">>, <<"b","-","a","7">>, <<"b","-","b","-","a","7">>,
    <<"x","-","a","7">>, <<"b","-">> }

MatchEntries == { <<"b","-","a","7">>, <<"x","-","a","7">> }

ResolverConfigs ==
  { [ResolverConfig_new(p) EXCEPT !.allow_substring_match = allow] :
      p \in { <<"b">>, <<"x">> }, allow \in BOOLEAN }

InitResolve ==
  /\ call \in [op : {"resolve"}, config : ResolverConfigs, input : ResolveInputs,
               exists_fn : SUBSET KnownIds,
               substring_match_fn : SeqsOf(MatchEntries, 0, MaxMatches)]
  /\ ret = NoRet
  /\ GeneratorAtRest

\* resolve.rs:67-128
CallResolve ==
  /\ call.op = "resolve" /\ ~ret.done
  /\ ret' = Returned(resolve(IdResolver_new(call.config), call.input,
                             call.exists_fn, call.substring_match_fn))
  /\ UNCHANGED <<gen_inputs, seed_fn, g, caller_vars, call>>

NextResolve == CallResolve

SpecResolve == InitResolve /\ [][NextResolve]_vars

\* The normalized input of the call and its prefix-normalized form.
NormalizedInput == trim(to_lowercase(call.input))

PrefixedInput == call.config.default_prefix \o <<"-">> \o NormalizedInput

\* C20 (as stated): if exists answers true for the normalized input the
\* result is Exact with the normalized input; otherwise, if the
\* prefix-normalized form exists, the result is PrefixNormalized with
\* default_prefix + '-' + normalized; a Substring result is produced only
\* when neither the normalized input nor the prefix-normalized form exists.
C20_StagePrecedence ==
  (ret.done /\ call.op = "resolve")
    => /\ NormalizedInput \in call.exists_fn
            => ret.val = Resolved(NormalizedInput, "Exact", call.input)
       /\ (NormalizedInput \notin call.exists_fn /\ PrefixedInput \in call.exists_fn)
            => ret.val = Resolved(PrefixedInput, "PrefixNormalized", call.input)
       /\ (ret.val.kind = "Ok" /\ ret.val.match_type = "Substring")
            => (NormalizedInput \notin call.exists_fn
                /\ PrefixedInput \notin call.exists_fn)

\* C20 (amended): if exists answers true for the normalized input the
\* result is Exact with the normalized input; otherwise, if the normalized
\* input contains no '-' and the prefix-normalized form exists, the result
\* is PrefixNormalized with default_prefix + '-' + normalized; a Substring
\* result is produced only when the normalized input does not exist and it
\* contains a '-' or its prefix-normalized form does not exist.
C20_StagePrecedenceWithoutDash ==
  (ret.done /\ call.op = "resolve")
    => /\ NormalizedInput \in call.exists_fn
            => ret.val = Resolved(NormalizedInput, "Exact", call.input)
       /\ (/\ NormalizedInput \notin call.exists_fn
           /\ ~contains(NormalizedInput, "-")
           /\ PrefixedInput \in call.exists_fn)
            => ret.val = Resolved(PrefixedInput, "PrefixNormalized", call.input)
       /\ (ret.val.kind = "Ok" /\ ret.val.match_type = "Substring")
            => /\ NormalizedInput \notin call.exists_fn
               /\ contains(NormalizedInput, "-") \/ PrefixedInput \notin call.exists_fn

\* An input between spaces and in upper case whose prefix-normalized form
\* exists while the substring matcher has one entry to offer.
C20_Witness ==
  /\ ret.done /\ call.op = "resolve"
  /\ call.input = <<" ","A","7"," ">>
  /\ call.config.default_prefix = <<"b">> /\ call.config.allow_substring_match
  /\ call.exists_fn = { <<"b","-","a","7">> }
  /\ call.substring_match_fn = << <<"x","-","a","7">> >>
  /\ ret.val = Resolved(<<"b","-","a","7">>, "PrefixNormalized", <<" ","A","7"," ">>)

(***************************************************************************)
(* SpecOracle: one resolve call and the oracle calls it makes, in order    *)
(***************************************************************************)

\* One call of an oracle: exists_fn(arg) or substring_match_fn(arg).
ExistsCall(arg) == [oracle |-> "exists_fn", arg |-> arg]
SubstringCall(arg) == [oracle |-> "substring_match_fn", arg |-> arg]

\* resolve_calls with the prefix-normalized form tested whether or not the
\* input holds a hyphen.
resolve_calls_always_prefixed(self, input, exists_fn) ==
  LET normalized == trim(to_lowercase(input))
      prefixed   == self.config.default_prefix \o <<"-">> \o normalized
      stage1     == <<ExistsCall(normalized)>>
      stage2     == <<ExistsCall(prefixed)>>
      stage3     == IF self.config.allow_substring_match
                    THEN <<SubstringCall(normalized)>> ELSE <<>>
  IN  IF normalized \in exists_fn THEN stage1
      ELSE IF prefixed \in exists_fn THEN stage1 \o stage2
      ELSE stage1 \o stage2 \o stage3

\* resolve_calls with the substring matcher called whether or not substring
\* matching is allowed.
resolve_calls_substring_always(self, input, exists_fn) ==
  LET normalized == trim(to_lowercase(input))
      prefixed   == self.config.default_prefix \o <<"-">> \o normalized
      stage1     == <<ExistsCall(normalized)>>
      stage2     == IF ~contains(normalized, "-")
                    THEN <<ExistsCall(prefixed)>> ELSE <<>>
      stage3     == <<SubstringCall(normalized)>>
  IN  IF normalized \in exists_fn THEN stage1
      ELSE IF ~contains(normalized, "-") /\ prefixed \in exists_fn
      THEN stage1 \o stage2
      ELSE stage1 \o stage2 \o stage3

\* resolve.rs:67-128  the oracle calls of IdResolver::resolve, in order:
\* exists_fn(&normalized) at line 81, exists_fn(&prefixed) at line 92 under
\* the guard of line 90, substring_match_fn(&normalized) at line 103 under
\* the guard of line 102; each return ends the calls.
resolve_calls(self, input, exists_fn) ==
  LET normalized == trim(to_lowercase(input))
      prefixed   == self.config.default_prefix \o <<"-">> \o normalized
      stage1     == <<ExistsCall(normalized)>>
      stage2     == IF ~contains(normalized, "-")
                    THEN <<ExistsCall(prefixed)>> ELSE <<>>
      stage3     == IF self.config.allow_substring_match
                    THEN <<SubstringCall(normalized)>> ELSE <<>>
  IN  IF normalized \in exists_fn THEN stage1
      ELSE IF ~contains(normalized, "-") /\ prefixed \in exists_fn
      THEN stage1 \o stage2
      ELSE stage1 \o stage2 \o stage3

InitOracle ==
  /\ call \in [op : {"resolve_calls"}, config : ResolverConfigs,
               input : ResolveInputs, exists_fn : SUBSET KnownIds,
               substring_match_fn : SeqsOf(MatchEntries, 0, MaxMatches)]
  /\ ret = NoRet
  /\ GeneratorAtRest

\* resolve.rs:67-128  the result of the call and the oracle calls it made
CallResolveCalls ==
  /\ call.op = "resolve_calls" /\ ~ret.done
  /\ ret' = Returned(
       [result |-> resolve(IdResolver_new(call.config), call.input,
                           call.exists_fn, call.substring_match_fn),
        calls  |-> resolve_calls(IdResolver_new(call.config), call.input,
                                 call.exists_fn)])
  /\ UNCHANGED <<gen_inputs, seed_fn, g, caller_vars, call>>

NextOracle == CallResolveCalls

SpecOracle == InitOracle /\ [][NextOracle]_vars

\* C21: the prefix-normalization stage runs only when the normalized input
\* holds no '-': for an input with a '-' exists is never called with
\* default_prefix + '-' + normalized and the result is never
\* PrefixNormalized, even if that prefixed ID exists.
C21_NoPrefixStageWithDash ==
  (ret.done /\ call.op = "resolve_calls" /\ contains(NormalizedInput, "-"))
    => /\ \A i \in 1..Len(ret.val.calls) :
            ret.val.calls[i] # ExistsCall(PrefixedInput)
       /\ ~(ret.val.result.kind = "Ok"
            /\ ret.val.result.match_type = "PrefixNormalized")

\* An input with a hyphen whose prefixed form exists: one exists call, then
\* the substring matcher.
C21_Witness ==
  /\ ret.done /\ call.op = "resolve_calls"
  /\ call.input = <<"B","-","A","7">> /\ call.config.default_prefix = <<"b">>
  /\ call.config.allow_substring_match
  /\ call.exists_fn = { <<"b","-","b","-","a","7">> }
  /\ call.substring_match_fn = << <<"x","-","a","7">> >>
  /\ ret.val.calls = << ExistsCall(<<"b","-","a","7">>),
                        SubstringCall(<<"b","-","a","7">>) >>
  /\ ret.val.result.match_type = "Substring"

\* The positions of the calls of one oracle in a list of calls.
CallsOf(calls, oracle) == { i \in 1..Len(calls) : calls[i].oracle = oracle }

\* C30: within one resolve call exists is called first, on the normalized
\* input, then (only if that answered false and the input holds no '-')
\* once on the prefixed form; substring_match_fn is called at most once,
\* last, only after every exists call answered false and only if
\* allow_substring_match is true; no oracle is called after a stage has
\* matched; exists is called at most twice.
C30_OracleOrder ==
  (ret.done /\ call.op = "resolve_calls")
    => LET calls  == ret.val.calls
           ex     == CallsOf(calls, "exists_fn")
           sub    == CallsOf(calls, "substring_match_fn")
           result == ret.val.result
       IN  /\ Len(calls) >= 1 /\ calls[1] = ExistsCall(NormalizedInput)
           /\ ex \subseteq {1, 2} /\ Cardinality(ex) <= 2
           /\ 2 \in ex
                => /\ calls[2] = ExistsCall(PrefixedInput)
                   /\ NormalizedInput \notin call.exists_fn
                   /\ ~contains(NormalizedInput, "-")
           /\ Cardinality(sub) <= 1
           /\ \A i \in sub :
                /\ i = Len(calls)
                /\ calls[i] = SubstringCall(NormalizedInput)
                /\ call.config.allow_substring_match
                /\ \A j \in ex : calls[j].arg \notin call.exists_fn
           /\ \A i \in 1..Len(calls) :
                (calls[i].oracle = "exists_fn" /\ calls[i].arg \in call.exists_fn)
                  => i = Len(calls)
           /\ (result.kind = "Ok" /\ result.match_type = "Exact")
                => calls = <<ExistsCall(NormalizedInput)>>
           /\ (result.kind = "Ok" /\ result.match_type = "PrefixNormalized")
                => calls = <<ExistsCall(NormalizedInput), ExistsCall(PrefixedInput)>>

\* A call that goes through all three stages: two exists calls answered
\* false, then the substring matcher.
C30_Witness ==
  /\ ret.done /\ call.op = "resolve_calls"
  /\ call.input = <<" ","A","7">> /\ call.config.default_prefix = <<"b">>
  /\ call.exists_fn = {}
  /\ ret.val.calls = << ExistsCall(<<"a","7">>), ExistsCall(<<"b","-","a","7">>),
                        SubstringCall(<<"a","7">>) >>

\* Whether the call reaches the substring stage: neither the normalized
\* input nor, for an input without '-', its prefixed form exists, and
\* substring matching is allowed.
NoExistsStageMatches ==
  /\ NormalizedInput \notin call.exists_fn
  /\ contains(NormalizedInput, "-") \/ PrefixedInput \notin call.exists_fn

ReachesSubstringStage ==
  NoExistsStageMatches /\ call.config.allow_substring_match

\* C22: when resolve reaches the substring stage only the number of entries
\* substring_match_fn returns decides: one entry gives a Substring result
\* with that entry as id; two or more give AmbiguousId with the normalized
\* input and the returned list unchanged, duplicates of one ID included;
\* none falls through to NotFound.
C22_SubstringStageByCount ==
  (ret.done /\ call.op = "resolve" /\ ReachesSubstringStage)
    => LET matches == call.substring_match_fn
       IN  /\ Len(matches) = 1
                => ret.val = Resolved(matches[1], "Substring", call.input)
           /\ Len(matches) >= 2
                => ret.val = AmbiguousId(NormalizedInput, matches)
           /\ Len(matches) = 0 => ret.val = NotFound(NormalizedInput)

\* Two entries of one ID: ambiguous, and the list comes back as it was.
C22_Witness ==
  /\ ret.done /\ call.op = "resolve" /\ ReachesSubstringStage
  /\ call.input = <<"a","7">>
  /\ call.substring_match_fn = << <<"b","-","a","7">>, <<"b","-","a","7">> >>
  /\ ret.val = AmbiguousId(<<"a","7">>, << <<"b","-","a","7">>, <<"b","-","a","7">> >>)

\* C23: resolve fails with NotFound, carrying the normalized input, exactly
\* when no stage matches: exists is false for the normalized input, the
\* input holds a '-' or exists is false for the prefixed form, and
\* substring matching is disabled or returns no entry.  With substring
\* matching disabled the outcome is the one of any other list of matches.
C23_NotFoundIffNoStageMatches ==
  (ret.done /\ call.op = "resolve")
    => /\ ret.val.kind = "NotFound"
            <=> /\ NoExistsStageMatches
                /\ \/ ~call.config.allow_substring_match
                   \/ call.substring_match_fn = <<>>
       /\ ret.val.kind = "NotFound" => ret.val = NotFound(NormalizedInput)
       /\ ~call.config.allow_substring_match
            => \A matches \in SeqsOf(MatchEntries, 0, MaxMatches) :
                 ret.val = resolve(IdResolver_new(call.config), call.input,
                                   call.exists_fn, matches)

\* Substring matching disabled while the matcher has one entry to offer.
C23_Witness ==
  /\ ret.done /\ call.op = "resolve"
  /\ ~call.config.allow_substring_match
  /\ call.input = <<"A","7"," ">> /\ call.exists_fn = {}
  /\ call.substring_match_fn = << <<"b","-","a","7">> >>
  /\ ret.val = NotFound(<<"a","7">>)

(***************************************************************************)
(* SpecFind: find_matching_ids (resolve.rs:135-151)                        *)
(***************************************************************************)

\* str::contains(&str): sub stands somewhere in s; the empty string stands
\* in every string.
contains_str(s, sub) ==
  \E i \in 0..(Len(s) - Len(sub)) : SubSeq(s, i + 1, i + Len(sub)) = sub

\* find_matching_ids that emits the entries as they were passed.
RECURSIVE find_matching_ids_as_passed(_, _)
find_matching_ids_as_passed(all_ids, hash_substring) ==
  IF all_ids = <<>> THEN <<>>
  ELSE LET parsed == parse_id(Head(all_ids))
           rest   == find_matching_ids_as_passed(Tail(all_ids), hash_substring)
       IN  IF parsed.ok /\ contains_str(parsed.hash, hash_substring)
           THEN <<Head(all_ids)>> \o rest
           ELSE rest

\* resolve.rs:135-151  find_matching_ids: filter_map over all_ids in order.
RECURSIVE find_matching_ids(_, _)
find_matching_ids(all_ids, hash_substring) ==
  IF all_ids = <<>> THEN <<>>
  ELSE LET parsed == parse_id(Head(all_ids))
           rest   == find_matching_ids(Tail(all_ids), hash_substring)
       IN  IF parsed.ok /\ contains_str(parsed.hash, hash_substring)
           THEN <<to_id_string(parsed)>> \o rest
           ELSE rest

\* The longest list of IDs passed to find_matching_ids.
MaxIds == 2

\* The entries: "a7" as hash in lower and upper case, with a child segment
\* written "01", in the prefix only, in the child path only, and a string
\* that does not parse.
FindIds ==
  { <<"b","-","a","7">>, <<"B","-","A","7">>, <<"B","-","A","7",".","0","1">>,
    <<"a","7","-","b">>, <<"b","-","x",".","7">>, <<"a","7">> }

FindSubstrings == { <<"a","7">>, <<"A","7">>, <<"7">>, <<"a">>, <<>> }

InitFind ==
  /\ call \in [op : {"find_matching_ids"}, all_ids : SeqsOf(FindIds, 0, MaxIds),
               hash_substring : FindSubstrings]
  /\ ret = NoRet
  /\ GeneratorAtRest

\* resolve.rs:135-151
CallFindMatchingIds ==
  /\ call.op = "find_matching_ids" /\ ~ret.done
  /\ ret' = Returned(find_matching_ids(call.all_ids, call.hash_substring))
  /\ UNCHANGED <<gen_inputs, seed_fn, g, caller_vars, call>>

NextFind == CallFindMatchingIds

SpecFind == InitFind /\ [][NextFind]_vars

\* Whether sub is a piece of h.
IsPieceOf(sub, h) ==
  \E i \in 0..Len(h) : \E j \in i..Len(h) : SubSeq(h, i + 1, j) = sub

\* Whether an entry survives: parse_id accepts it and its hash segment holds
\* the substring.
Survives(id, sub) ==
  parse_id(id).ok /\ IsPieceOf(sub, HashSegment(id))

\* C24: find_matching_ids returns, in the order of all_ids and with one
\* output for each surviving entry, the canonical form of exactly the
\* entries that parse_id accepts and whose hash (not the prefix, not the
\* child path) holds the substring; entries that do not parse are skipped.
C24_FindMatchingIdsFilters ==
  (ret.done /\ call.op = "find_matching_ids")
    => LET Keep(id) == Survives(id, call.hash_substring)
           kept     == SelectSeq(call.all_ids, Keep)
       IN  ret.val = [i \in 1..Len(kept) |-> CanonicalForm(kept[i])]

\* An entry with the substring in its prefix only, then an entry in upper
\* case with a child segment "01": the second one alone, in canonical form.
C24_Witness ==
  /\ ret.done /\ call.op = "find_matching_ids"
  /\ call.all_ids = << <<"a","7","-","b">>, <<"B","-","A","7",".","0","1">> >>
  /\ call.hash_substring = <<"a","7">>
  /\ ret.val = << <<"b","-","a","7",".","1">> >>

\* C25: matching is case-insensitive on every input: find_matching_ids
\* returns for its arguments what it returns for the same arguments in
\* lower case.
C25_FindIgnoresCase ==
  (ret.done /\ call.op = "find_matching_ids")
    => ret.val = find_matching_ids(
                   [i \in 1..Len(call.all_ids) |-> to_lowercase(call.all_ids[i])],
                   to_lowercase(call.hash_substring))

\* C29: every ParsedId that parse_id returns has a non-empty prefix made of
\* characters of [a-z0-9-] only and a non-empty hash of lower-case base36
\* characters.
C29_ParsedFieldsWellFormed ==
  (ret.done /\ call.op = "parse_id" /\ ret.val.ok)
    => /\ ret.val.prefix # <<>>
       /\ \A i \in 1..Len(ret.val.prefix) :
            ret.val.prefix[i] \in Digits \cup LowerLetters \cup {"-"}
       /\ ret.val.hash # <<>>
       /\ \A i \in 1..Len(ret.val.hash) :
            ret.val.hash[i] \in Digits \cup LowerLetters

(***************************************************************************)
(* SpecFair: one generate call that keeps running: every exists call       *)
(* returns, and the loops of generate.rs:70-107 take their next turn       *)
(***************************************************************************)

\* The calls of Spec, each item count with one of the seed functions, and
\* the build with overflow checks only where a power overflows.
InitFair ==
  /\ Init
  /\ seed_fn.const <=> item_count = 0
  /\ build = "debug" => config.max_hash_length > LongLength

SpecFair == InitFair /\ [][Next]_vars /\ WF_vars(Next)

\* The largest number of exists calls of one generate call up to the end of
\* each tier: 0 when optimal_length panics before the first of them.
CallBounds ==
  LET optimal == optimal_length(config, item_count, build)
      tier2   == 10 + 10 * (config.max_hash_length - optimal)
  IN  IF optimal = Panic THEN <<0, 0, 0, 0>>
      ELSE <<10, tier2, tier2 + 1001, tier2 + 1001 + 10001>>

CallBound == CallBounds[4]

GenEnded == g.pc \in {"done", "panicked"}

\* C26: every generate call ends (from some point on it has returned or
\* panicked for good), and within one call exists is called at most
\* 10 + 10 * (max_hash_length - optimal_length(item_count)) + 1001 + 10001
\* times, whatever the oracle answers and whatever the seed function: at
\* most 10 times in the first tier, 10 * (max_hash_length - optimal_length)
\* times in the second, 1001 times in the third and 10001 times in the
\* fourth.
C26_EndsWithinCallBound ==
  /\ [](/\ g.calls <= CallBound
        /\ g.pc = "phase1" => g.calls < CallBounds[1]
        /\ g.pc = "phase2" => g.calls < CallBounds[2]
        /\ g.pc = "phase3" => g.calls < CallBounds[3]
        /\ g.pc = "phase4" => g.calls < CallBounds[4])
  /\ <>[]GenEnded

\* A call whose every candidate was answered true: it ends after exactly
\* that many exists calls.
C26_Witness ==
  /\ g.pc = "done" /\ g.answer
  /\ g.calls = CallBound /\ g.calls = 11032 + 30

(***************************************************************************)
(* SpecTiers: one generate call of a generator whose max_hash_length is    *)
(* the default one or 13, against an arbitrary existence oracle            *)
(***************************************************************************)

TierConfigs ==
  { IdConfig_new(p) : p \in Prefixes }
  \cup { with_max_hash_length(IdConfig_new(p), 13) : p \in Prefixes }

InitTiers ==
  /\ config \in TierConfigs
  /\ item_count \in GenItemCounts
  /\ build \in Builds
  /\ seed_fn = [const |-> FALSE, base |-> 1]
  /\ g = GenIdle
  /\ existing0 = "empty" /\ added = {} /\ returned = <<>>
  /\ call = NoCall /\ ret = NoRet

SpecTiers == InitTiers /\ [][Next]_vars

\* The length of the hash part of a candidate: what follows the prefix and
\* the hyphen.
HashPartLength(id) == Len(id) - Len(config.prefix) - 1

\* C28: within one generate call the hash part of a candidate passed to
\* exists is never shorter than the hash part of the candidate passed
\* before it.
C28_HashLengthNeverDecreases ==
  [][(g.calls >= 1 /\ g'.calls = g.calls + 1)
       => HashPartLength(g'.query) >= HashPartLength(g.query)]_vars

(***************************************************************************)
(* SpecConc: several generate calls running at once against one shared     *)
(* existence oracle that checks and reserves in one step                   *)
(***************************************************************************)

\* The number of concurrent generate calls.
MaxProcs == 2

Procs == 1..MaxProcs

\* The number of exists calls of each generate call that are taken in
\* every order with the steps of the other calls; from then on the calls
\* that have not returned go on one after the other, once each of them has
\* made that many exists calls.
MaxInterleaved == 12

InitConc ==
  /\ config \in { IdConfig_new(p) : p \in Prefixes }
  /\ item_count = 0
  /\ build = "release"
  /\ seed_fn \in [Procs -> SeedFns]
  /\ g = [p \in Procs |-> GenIdle]
  /\ existing0 \in InitialSets /\ added = {} /\ returned = <<>>
  /\ call = NoCall /\ ret = NoRet

MaySchedule(p) ==
  \/ g[p].calls < MaxInterleaved
  \/ /\ \A q \in 1..(p - 1) : g[q].pc = "done"
     /\ \A q \in (p + 1)..MaxProcs :
          g[q].pc = "done" \/ g[q].calls >= MaxInterleaved

\* generate.rs:69
ConcStart(p) ==
  /\ g[p].pc = "start"
  /\ g' = [g EXCEPT ![p] = gen_start(config, item_count, build, g[p])]
  /\ UNCHANGED <<gen_inputs, seed_fn, caller_vars, fn_vars>>

\* generate.rs:70-107  one exists call of one of the calls: the oracle
\* answers from the initial set and the reservations and, when it answers
\* false, reserves the candidate in the same step.
ConcQuery(p) ==
  /\ GenRunning(g[p]) /\ MaySchedule(p)
  /\ LET c      == gen_query(config, seed_fn[p], g[p])
         answer == exists(c)
     IN  /\ g' = [g EXCEPT ![p] = gen_step(config, seed_fn[p], g[p], answer)]
         /\ added' = IF answer THEN added ELSE added \cup {c}
  /\ UNCHANGED <<gen_inputs, seed_fn, existing0, returned, fn_vars>>

NextConc == \E p \in Procs : ConcStart(p) \/ ConcQuery(p)

SpecConc == InitConc /\ [][NextConc]_vars

\* C27 (as stated): no two of the concurrent calls return the same ID.
C27_NoTwoCallsReturnSameId ==
  \A p, q \in Procs :
    (p # q /\ g[p].pc = "done" /\ g[q].pc = "done")
      => g[p].result # g[q].result

\* C27 (amended): no two of the concurrent calls return the same ID, unless
\* both went through all four tiers and returned the ".fallback" literal,
\* which is never passed to the oracle; an ID returned otherwise was
\* reserved by the call that returned it and by no other.
C27_NoSharedIdUnlessExhausted ==
  \A p, q \in Procs :
    (p # q /\ g[p].pc = "done" /\ g[q].pc = "done"
       /\ g[p].result = g[q].result)
      => /\ Exhausted(g[p]) /\ Exhausted(g[q])
         /\ g[p].result \notin added

\* Two calls with one seed: the first took the candidate, the second met
\* the reservation ten times and returned the next length.
C27_Witness ==
  /\ g[1].pc = "done" /\ g[2].pc = "done"
  /\ g[1].calls = 1 /\ g[2].calls = 11
  /\ ~Exhausted(g[1]) /\ ~Exhausted(g[2])
  /\ g[1].result # g[2].result
  /\ {g[1].result, g[2].result} \subseteq added

====
